---- MODULE Spec2Model ----
(***************************************************************************)
(* Model of pkg/bindings/generator/generator.go: the go:generate program   *)
(* that writes the With<Field>/Get<Field> accessors of an options struct.  *)
(*                                                                         *)
(* Strings are sequences of one-character strings, so that the string      *)
(* functions of the program (TrimRight, ToLower, Replace) are computed     *)
(* character by character.  The syntax tree is not stored: ast.Inspect     *)
(* hands the closure one node at a time, and the model draws each node     *)
(* when the closure is called.  Comments, imports and the package name     *)
(* are left out: they are copied to the template and decide no branch.     *)
(***************************************************************************)
EXTENDS Integers, Sequences, FiniteSets, TLC

VARIABLES
    srcFile,          \* os.Getenv("GOFILE")
    inputStructName,  \* os.Args[1]
    outName,          \* name given to os.Create
    pc,               \* the statement main is about to execute
    exitCode,         \* -1 while running, else the exit status of the process
    failedAt,         \* the operation whose error ended the run, or "none"
    opened,           \* os.Create has returned the output file
    closed,           \* main's local `closed`
    closeCalls,       \* number of calls of out.Close()
    visited,          \* nodes ast.Inspect has handed to the closure
    matches,          \* of these, the TypeSpecs named inputStructName
    x,                \* x.Fields.List of the TypeSpec being processed
    idx,              \* position of the `for _, field` loop in x
    fieldStructs,     \* main's local `fieldStructs`
    outContent,       \* what has been written to the output file
    executed,         \* successful calls of body.Execute
    gofmtRuns,        \* runs of `go fmt`
    goimportsRuns     \* runs of `goimports -w`

vars == <<srcFile, inputStructName, outName, pc, exitCode, failedAt, opened,
          closed, closeCalls, visited, matches, x, idx, fieldStructs,
          outContent, executed, gofmtRuns, goimportsRuns>>

-----------------------------------------------------------------------------
(* Bounds *)

MaxStem == 2     \* characters of the source file name before ".go"
MaxNodes == 3    \* nodes the walk hands to the closure
MaxFields == 2   \* field entries of the matching declarations of one file

-----------------------------------------------------------------------------
(* Strings *)

Str(n) == UNION {[1..k -> {"a", "g", "o", "."}] : k \in 0..n}

Upper == <<"A","B","C","D","E","F","G","H","I","J","K","L","M",
           "N","O","P","Q","R","S","T","U","V","W","X","Y","Z">>
Lower == <<"a","b","c","d","e","f","g","h","i","j","k","l","m",
           "n","o","p","q","r","s","t","u","v","w","x","y","z">>

Range(s) == {s[i] : i \in 1..Len(s)}

\* unicode.ToLower on one character
ToLowerRune(c) ==
    IF c \in Range(Upper)
    THEN Lower[CHOOSE i \in 1..Len(Upper) : Upper[i] = c]
    ELSE c

\* strings.ToLower
ToLower(s) == [i \in 1..Len(s) |-> ToLowerRune(s[i])]

\* strings.TrimRight(s, cutset): drops every trailing character that is in
\* cutset, one at a time, until the last character is not in it.
RECURSIVE TrimRight(_, _)
TrimRight(s, cutset) ==
    IF s # <<>> /\ s[Len(s)] \in Range(cutset)
    THEN TrimRight(SubSeq(s, 1, Len(s) - 1), cutset)
    ELSE s

\* strings.Index: position of the first occurrence of sub in s, 0 if none
\* (Go counts from 0 and answers -1).
Index(s, sub) ==
    LET at == {i \in 1..(Len(s) - Len(sub) + 1) :
                   SubSeq(s, i, i + Len(sub) - 1) = sub}
    IN  IF at = {} THEN 0 ELSE CHOOSE i \in at : \A j \in at : i <= j

\* strings.Replace(s, old, new, n) for a non-empty old and n >= 0.
RECURSIVE Replace(_, _, _, _)
Replace(s, old, new, n) ==
    LET i == Index(s, old)
    IN  IF n = 0 \/ i = 0
        THEN s
        ELSE SubSeq(s, 1, i - 1) \o new
             \o Replace(SubSeq(s, i + Len(old), Len(s)), old, new, n - 1)

DotGo == <<".", "g", "o">>
OptionsStr == <<"o","p","t","i","o","n","s">>

\* the argument of os.Create
OutputName(src, name) ==
    TrimRight(src, DotGo) \o <<"_">>
    \o Replace(ToLower(name), OptionsStr, <<"_">> \o OptionsStr, 1) \o DotGo

-----------------------------------------------------------------------------
(* Inputs *)

\* GOFILE names a Go source file: the go tool skips files whose name starts
\* with "." (an empty stem included), so go generate never runs in one.
SrcFiles == {stem \o DotGo : stem \in {s \in Str(MaxStem) : s # <<>> /\ s[1] # "."}}

TypeNames == { <<"T">>,
               <<"O","p","t","i","o","n","s">>,
               <<"K","i","l","l","O","p","t","i","o","n","s">>,
               <<"O","p","t","i","o","n","s","O","p","t","i","o","n","s">> }

\* The type expressions of a field: Kind is the node type of field.Type, X the
\* node type a StarExpr points to, Text the source bytes b[start:end].
TypeExprs ==
    { [Kind |-> "Ident",      X |-> "",           Text |-> <<"T">>],
      [Kind |-> "StarExpr",   X |-> "Ident",      Text |-> <<"*","T">>],
      [Kind |-> "StarExpr",   X |-> "StructType", Text |-> <<"*","s","t","r","u","c","t","{","}">>],
      [Kind |-> "MapType",    X |-> "",           Text |-> <<"m","a","p","[","K","]","V">>],
      [Kind |-> "StructType", X |-> "",           Text |-> <<"s","t","r","u","c","t","{","}">>],
      [Kind |-> "ArrayType",  X |-> "",           Text |-> <<"[","]","T">>] }

\* An embedded field (no name) is a type name or a pointer to a type name.
EmbeddableTypes == {t \in TypeExprs : t.Kind = "Ident" \/ (t.Kind = "StarExpr" /\ t.X = "Ident")}

\* The shape of one field entry: how many names it declares, and its type.
FieldShapes ==
    {[N |-> n, Type |-> t] : n \in 1..2, t \in TypeExprs}
    \cup {[N |-> 0, Type |-> t] : t \in EmbeddableTypes}

\* The k-th identifier of a struct: the parser yields non-empty identifiers.
Ident(k) == <<Upper[k]>>

RECURSIVE NamesBefore(_, _)
NamesBefore(shapes, i) ==
    IF i <= 1 THEN 0 ELSE shapes[i - 1].N + NamesBefore(shapes, i - 1)

\* x.Fields.List for a sequence of shapes: the entries declare distinct names.
FieldList(shapes) ==
    [i \in 1..Len(shapes) |->
        [Names |-> [j \in 1..shapes[i].N |-> Ident(NamesBefore(shapes, i) + j)],
         Type  |-> shapes[i].Type]]

FieldLists(n) == {FieldList(s) : s \in UNION {[1..k -> FieldShapes] : k \in 0..n}}

-----------------------------------------------------------------------------
(* Field classification and the template *)

\* A classification that forgets the array case.
IsCompositeNoArray(t) == t.Kind \in {"MapType", "StructType"}

\* A classification that looks through a pointer to the type it points to.
IsCompositeThroughPointer(t) ==
    \/ t.Kind \in {"MapType", "StructType", "ArrayType"}
    \/ (t.Kind = "StarExpr" /\ t.X = "StructType")

\* switch field.Type.(type) { case *ast.MapType, *ast.StructType, *ast.ArrayType }
IsComposite(t) == t.Kind \in {"MapType", "StructType", "ArrayType"}

\* var name string; if len(field.Names) > 0 { name = field.Names[0].Name }
FieldName(field) == IF Len(field.Names) > 0 THEN field.Names[1] ELSE <<>>

\* if len(field.Names) > 0 { ...; if len(name) < 1 { panic("bad name") } }
BadName(field) == Len(field.Names) > 0 /\ Len(FieldName(field)) < 1

\* the fieldStruct appended for one field entry
NewFieldStruct(field, structName) ==
    [Composite  |-> IsComposite(field.Type),
     Name       |-> FieldName(field),
     StructName |-> structName,
     Type       |-> Replace(field.Type.Text, <<"*">>, <<>>, 1)]

\* The two methods bodyTmpl emits for one element of .Fields:
\*   func (o *S) With<Name>(value <Type>) *S { o.<Name> = [&]value; return o }
\*   func (o *S) Get<Name>() <Type> { ...; return [*]o.<Name> }
RenderField(f) ==
    << [Prefix |-> "With", Name |-> f.Name, Type |-> f.Type,
        Expr |-> IF ~f.Composite THEN "&value" ELSE "value"],
       [Prefix |-> "Get", Name |-> f.Name, Type |-> f.Type,
        Expr |-> IF ~f.Composite THEN "*o." ELSE "o."] >>

\* {{range $field := .Fields}} ... {{end}}
RECURSIVE Render(_)
Render(fields) ==
    IF fields = <<>> THEN <<>> ELSE RenderField(Head(fields)) \o Render(Tail(fields))

-----------------------------------------------------------------------------
(* main *)

InitRun ==
    /\ outName = <<>>
    /\ exitCode = -1
    /\ failedAt = "none"
    /\ opened = FALSE
    /\ closed = FALSE
    /\ closeCalls = 0
    /\ visited = 0
    /\ matches = 0
    /\ x = <<>>
    /\ idx = 0
    /\ fieldStructs = <<>>
    /\ outContent = <<>>
    /\ executed = 0
    /\ gofmtRuns = 0
    /\ goimportsRuns = 0

Init ==
    /\ srcFile = <<"a">> \o DotGo
    /\ inputStructName \in TypeNames
    /\ pc = "ReadFile"
    /\ InitRun

\* panic: the goroutine unwinds and the process exits with status 2
Panic(op) ==
    /\ pc' = "Aborted"
    /\ exitCode' = 2
    /\ failedAt' = op

\* fmt.Println(err); os.Exit(1): deferred functions do not run
Exit1(op) ==
    /\ pc' = "Aborted"
    /\ exitCode' = 1
    /\ failedAt' = op

\* defer func() { if !closed { out.Close() } }()
DeferredClose ==
    closeCalls' = IF ~closed THEN closeCalls + 1 ELSE closeCalls

\* b, err := ioutil.ReadFile(srcFile); if err != nil { panic(err) }
ReadFile ==
    /\ pc = "ReadFile"
    /\ \E err \in BOOLEAN :
          IF err THEN Panic("ReadFile")
          ELSE pc' = "ParseFile" /\ UNCHANGED <<exitCode, failedAt>>
    /\ UNCHANGED <<srcFile, inputStructName, outName, opened, closed, closeCalls,
                   visited, matches, x, idx, fieldStructs, outContent, executed,
                   gofmtRuns, goimportsRuns>>

\* f, err := parser.ParseFile(...); if err != nil { panic(err) }
ParseFile ==
    /\ pc = "ParseFile"
    /\ \E err \in BOOLEAN :
          IF err THEN Panic("ParseFile")
          ELSE pc' = "Create" /\ UNCHANGED <<exitCode, failedAt>>
    /\ UNCHANGED <<srcFile, inputStructName, outName, opened, closed, closeCalls,
                   visited, matches, x, idx, fieldStructs, outContent, executed,
                   gofmtRuns, goimportsRuns>>

\* out, err := os.Create(...); if err != nil { panic(err) }; defer ...
Create ==
    /\ pc = "Create"
    /\ \E err \in BOOLEAN :
          IF err
          THEN Panic("Create") /\ UNCHANGED <<outName, opened>>
          ELSE /\ outName' = OutputName(srcFile, inputStructName)
               /\ opened' = TRUE
               /\ pc' = "Inspect"
               /\ UNCHANGED <<exitCode, failedAt>>
    /\ UNCHANGED <<srcFile, inputStructName, closed, closeCalls, visited,
                   matches, x, idx, fieldStructs, outContent, executed,
                   gofmtRuns, goimportsRuns>>

\* The closure is called on a node that is no TypeSpec named inputStructName:
\* return true.
InspectOther ==
    /\ pc = "Inspect"
    /\ visited < MaxNodes
    /\ visited' = visited + 1
    /\ UNCHANGED <<srcFile, inputStructName, outName, pc, exitCode, failedAt,
                   opened, closed, closeCalls, matches, x, idx, fieldStructs,
                   outContent, executed, gofmtRuns, goimportsRuns>>

\* The closure is called on a TypeSpec named inputStructName whose type is no
\* struct: ref.Type.(*ast.StructType) panics, and the deferred close runs as
\* main unwinds.
InspectNotStruct ==
    /\ pc = "Inspect"
    /\ visited < MaxNodes
    /\ visited' = visited + 1
    /\ matches' = matches + 1
    /\ Panic("TypeAssert")
    /\ DeferredClose
    /\ UNCHANGED <<srcFile, inputStructName, outName, opened, closed, x, idx,
                   fieldStructs, outContent, executed, gofmtRuns, goimportsRuns>>

\* The closure is called on a TypeSpec named inputStructName whose type is a
\* struct: x := ref.Type.(*ast.StructType), and the field loop starts.
InspectStruct ==
    /\ pc = "Inspect"
    /\ visited < MaxNodes
    /\ visited' = visited + 1
    /\ matches' = matches + 1
    /\ \E list \in FieldLists(MaxFields - Len(fieldStructs)) : x' = list
    /\ idx' = 1
    /\ pc' = "Fields"
    /\ UNCHANGED <<srcFile, inputStructName, outName, exitCode, failedAt, opened,
                   closed, closeCalls, fieldStructs, outContent, executed,
                   gofmtRuns, goimportsRuns>>

\* ast.Inspect has visited every node: main returns, the deferred close runs,
\* the process exits with status 0.
InspectReturn ==
    /\ pc = "Inspect"
    /\ pc' = "Done"
    /\ exitCode' = 0
    /\ DeferredClose
    /\ UNCHANGED <<srcFile, inputStructName, outName, failedAt, opened, closed,
                   visited, matches, x, idx, fieldStructs, outContent, executed,
                   gofmtRuns, goimportsRuns>>

\* one iteration of `for _, field := range x.Fields.List`
Field ==
    /\ pc = "Fields"
    /\ idx <= Len(x)
    /\ IF BadName(x[idx])
       THEN /\ Panic("BadName")
            /\ DeferredClose
            /\ UNCHANGED <<idx, fieldStructs>>
       ELSE /\ fieldStructs' = Append(fieldStructs, NewFieldStruct(x[idx], inputStructName))
            /\ idx' = idx + 1
            /\ UNCHANGED <<pc, exitCode, failedAt, closeCalls>>
    /\ UNCHANGED <<srcFile, inputStructName, outName, opened, closed, visited,
                   matches, x, outContent, executed, gofmtRuns, goimportsRuns>>

\* body.Execute(out, bodyStruct) returns an error when a write to out fails:
\* always on a file that has been closed, and whenever the system refuses it.
ExecuteErr(isClosed, ioErr) == isClosed \/ ioErr

\* if err := body.Execute(out, bodyStruct); err != nil { ...; os.Exit(1) }
\* A write that the system refuses leaves a prefix of the text in the file.
Execute ==
    /\ pc = "Fields"
    /\ idx > Len(x)
    /\ \E ioErr \in BOOLEAN :
          IF ExecuteErr(closed, ioErr)
          THEN /\ Exit1("Execute")
               /\ \E k \in 0..(IF closed THEN 0 ELSE Len(Render(fieldStructs))) :
                     outContent' = outContent \o SubSeq(Render(fieldStructs), 1, k)
               /\ UNCHANGED executed
          ELSE /\ outContent' = outContent \o Render(fieldStructs)
               /\ executed' = executed + 1
               /\ pc' = "Close"
               /\ UNCHANGED <<exitCode, failedAt>>
    /\ UNCHANGED <<srcFile, inputStructName, outName, opened, closed, closeCalls,
                   visited, matches, x, idx, fieldStructs, gofmtRuns, goimportsRuns>>

\* if err := out.Close(); err != nil { ...; os.Exit(1) }; closed = true
Close ==
    /\ pc = "Close"
    /\ closeCalls' = closeCalls + 1
    /\ \E err \in BOOLEAN :
          IF err
          THEN Exit1("Close") /\ UNCHANGED closed
          ELSE closed' = TRUE /\ pc' = "GoFmt" /\ UNCHANGED <<exitCode, failedAt>>
    /\ UNCHANGED <<srcFile, inputStructName, outName, opened, visited, matches,
                   x, idx, fieldStructs, outContent, executed, gofmtRuns,
                   goimportsRuns>>

\* A formatter failure that is printed but does not end the run.
AfterGoFmtNoExit(err) ==
    /\ pc' = "GoImports"
    /\ failedAt' = IF err THEN "GoFmt" ELSE failedAt
    /\ UNCHANGED exitCode

\* if err := gofmt.Run(); err != nil { fmt.Println(err); os.Exit(1) }
AfterGoFmt(err) ==
    IF err THEN Exit1("GoFmt")
    ELSE pc' = "GoImports" /\ UNCHANGED <<exitCode, failedAt>>

\* gofmt := exec.Command("go", "fmt", out.Name()); gofmt.Run()
GoFmt ==
    /\ pc = "GoFmt"
    /\ gofmtRuns' = gofmtRuns + 1
    /\ \E err \in BOOLEAN : AfterGoFmt(err)
    /\ UNCHANGED <<srcFile, inputStructName, outName, opened, closed, closeCalls,
                   visited, matches, x, idx, fieldStructs, outContent, executed,
                   goimportsRuns>>

\* goimport := exec.Command("goimports", "-w", out.Name()); goimport.Run();
\* on success the closure returns true and the walk goes on.
GoImports ==
    /\ pc = "GoImports"
    /\ goimportsRuns' = goimportsRuns + 1
    /\ \E err \in BOOLEAN :
          IF err THEN Exit1("GoImports")
          ELSE pc' = "Inspect" /\ UNCHANGED <<exitCode, failedAt>>
    /\ UNCHANGED <<srcFile, inputStructName, outName, opened, closed, closeCalls,
                   visited, matches, x, idx, fieldStructs, outContent, executed,
                   gofmtRuns>>

Next ==
    \/ ReadFile
    \/ ParseFile
    \/ Create
    \/ InspectOther
    \/ InspectNotStruct
    \/ InspectStruct
    \/ InspectReturn
    \/ Field
    \/ Execute
    \/ Close
    \/ GoFmt
    \/ GoImports

Spec == Init /\ [][Next]_vars

\* The output file name as a function of GOFILE and the type name: the inputs
\* range over SrcFiles and TypeNames, and os.Create is the one step.
InitName ==
    /\ srcFile \in SrcFiles
    /\ inputStructName \in TypeNames
    /\ pc = "Create"
    /\ InitRun

NextName == Create

SpecName == InitName /\ [][NextName]_vars

Terminal == pc \in {"Done", "Aborted"}

-----------------------------------------------------------------------------
(* What the claims read *)

CompositeKinds == {"MapType", "StructType", "ArrayType"}

\* every name a field list declares, in declaration order
RECURSIVE DeclaredNames(_)
DeclaredNames(list) ==
    IF list = <<>> THEN <<>> ELSE Head(list).Names \o DeclaredNames(Tail(list))

\* the names of the rendered methods with a given prefix, in output order
RECURSIVE MethodNames(_, _)
MethodNames(methods, prefix) ==
    IF methods = <<>> THEN <<>>
    ELSE (IF Head(methods).Prefix = prefix THEN <<Head(methods).Name>> ELSE <<>>)
         \o MethodNames(Tail(methods), prefix)

\* s without its suffix suf, when it ends in suf
TrimSuffix(s, suf) ==
    IF Len(s) >= Len(suf) /\ SubSeq(s, Len(s) - Len(suf) + 1, Len(s)) = suf
    THEN SubSeq(s, 1, Len(s) - Len(suf))
    ELSE s

\* The output file holds the rendering of the one declaration matched so far,
\* which x still is.
RenderedFirst == executed = 1 /\ matches = 1

\* The stage of the pipeline main is in.  Once the tools have run, the walk
\* over the remaining nodes is the end of the Formatting stage.
Stage ==
    CASE pc = "ReadFile" -> "Loading"
      [] pc = "ParseFile" -> "Parsing"
      [] pc = "Create" -> "Locating"
      [] pc = "Inspect" -> IF goimportsRuns >= 1 THEN "Formatting" ELSE "Locating"
      [] pc = "Fields" -> IF idx <= Len(x) THEN "Locating" ELSE "Rendering"
      [] pc = "Close" -> "Rendering"
      [] pc \in {"GoFmt", "GoImports"} -> "Formatting"
      [] OTHER -> pc

StageRank(s) ==
    CASE s = "Loading" -> 1
      [] s = "Parsing" -> 2
      [] s = "Locating" -> 3
      [] s = "Rendering" -> 4
      [] s = "Formatting" -> 5
      [] OTHER -> 6

-----------------------------------------------------------------------------
(* Claims *)

\* C1: when no type declaration is named like the target, the run fails with a
\* non-zero exit status; it does not end successfully with an empty output file.
C1_NoMatchIsFatal ==
    (Terminal /\ opened /\ matches = 0) => exitCode # 0

\* C2: once the template has been executed for the matched struct, the With
\* methods and the Get methods of the output name exactly the declared field
\* names (every name of a multi-name entry, nothing else), in declaration order.
C2_OnePairPerDeclaredName ==
    (pc = "Close") =>
        /\ MethodNames(outContent, "With") = DeclaredNames(x)
        /\ MethodNames(outContent, "Get") = DeclaredNames(x)

\* C3: for every field entry of the rendered struct, the setter assigns the
\* value itself and the getter returns the field itself if and only if the
\* field's type is a map, struct or array type; otherwise the setter stores the
\* address of the value and the getter dereferences the field.
C3_DirectIffComposite ==
    RenderedFirst =>
        /\ Len(outContent) = 2 * Len(x)
        /\ \A i \in 1..Len(x) :
              LET with == outContent[2 * i - 1]
                  get  == outContent[2 * i]
                  comp == x[i].Type.Kind \in CompositeKinds
              IN  /\ with.Prefix = "With" /\ get.Prefix = "Get"
                  /\ (with.Expr = "value") <=> comp
                  /\ (with.Expr = "&value") <=> ~comp
                  /\ (get.Expr = "o.") <=> comp
                  /\ (get.Expr = "*o.") <=> ~comp

\* C3 witness: a struct with a composite and a non-composite field is rendered.
C3_Witness ==
    /\ RenderedFirst
    /\ Len(x) = 2
    /\ x[1].Type.Kind = "ArrayType"
    /\ x[2].Type.Kind = "StarExpr"

\* a pointer to a struct type, or a struct type itself
StructOrPointerToStruct(t) ==
    t.Kind = "StructType" \/ (t.Kind = "StarExpr" /\ t.X = "StructType")

\* C4 as claimed: a field declared as a pointer to a struct and a field declared
\* as a struct value are both classified composite, and both setters assign the
\* value without taking its address.
C4_PointerAndValueComposite ==
    RenderedFirst =>
        \A i \in 1..Len(x) :
            StructOrPointerToStruct(x[i].Type) =>
                /\ fieldStructs[i].Composite
                /\ outContent[2 * i - 1].Expr = "value"

\* C4 as amended: a field whose type is a pointer (to a named type or to an
\* inline struct) is classified non-composite and its setter stores the address
\* of the value, as does a field whose type is a plain type name; a field whose
\* type is an inline struct is classified composite and its setter assigns the
\* value itself.
C4_PointerNotComposite ==
    RenderedFirst =>
        \A i \in 1..Len(x) :
            /\ x[i].Type.Kind \in {"StarExpr", "Ident"} =>
                  /\ ~fieldStructs[i].Composite
                  /\ outContent[2 * i - 1].Expr = "&value"
            /\ x[i].Type.Kind = "StructType" =>
                  /\ fieldStructs[i].Composite
                  /\ outContent[2 * i - 1].Expr = "value"

\* C4 witness: a struct with a pointer-to-struct field and a struct-valued field
\* is rendered.
C4_Witness ==
    /\ RenderedFirst
    /\ Len(x) = 2
    /\ x[1].Type.Kind = "StarExpr" /\ x[1].Type.X = "StructType"
    /\ x[2].Type.Kind = "StructType"

\* C5: a field entry without a name makes classification fail with "bad name":
\* no fieldStruct with an empty name is appended, no accessor is rendered for
\* one, and a run that met such an entry has aborted there.
C5_UnnamedFieldIsFatal ==
    /\ \A i \in 1..Len(fieldStructs) : fieldStructs[i].Name # <<>>
    /\ \A i \in 1..Len(outContent) : outContent[i].Name # <<>>
    /\ (\E i \in 1..Len(x) : i < idx /\ x[i].Names = <<>>) => failedAt = "BadName"

\* C6: on every path on which the output file has been opened it is closed
\* exactly once by the program: never twice, once when the run has ended, and
\* before a post-processing tool runs.
C6_ClosedExactlyOnce ==
    /\ closeCalls <= 1
    /\ (Terminal /\ opened) => closeCalls = 1
    /\ (gofmtRuns + goimportsRuns > 0) => closeCalls = 1

\* C7: the stages are entered in the order Loading, Parsing, Locating,
\* Rendering, Formatting; a failure leads to Aborted with a non-zero exit; Done
\* has exit status 0 and is reached only after rendering and formatting have
\* both succeeded; a terminal state is never left.
C7_StagesForwardDoneAfterFormatting ==
    [][ /\ StageRank(Stage') >= StageRank(Stage)
        /\ ~Terminal
        /\ (failedAt' # "none") => (pc' = "Aborted")
        /\ (pc' = "Aborted") => (exitCode' # 0 /\ failedAt' # "none")
        /\ (pc' = "Done") =>
              /\ exitCode' = 0
              /\ executed' >= 1
              /\ gofmtRuns' >= 1
              /\ goimportsRuns' >= 1 ]_vars

\* C8: whatever the number of matching declarations, the formatter and the
\* import resolver each run at most once; the formatter runs only after the
\* template has been written and the file closed, the import resolver only
\* after the formatter has succeeded; a failure of either ends the run with a
\* non-zero exit, and nothing runs after it.
C8_ToolsOnceInOrder ==
    /\ gofmtRuns <= 1
    /\ goimportsRuns <= 1
    /\ (gofmtRuns = 1) => (executed = 1 /\ closed /\ closeCalls = 1)
    /\ (goimportsRuns = 1) => (gofmtRuns = 1 /\ failedAt # "GoFmt")
    /\ (failedAt = "GoFmt") => (pc = "Aborted" /\ exitCode # 0 /\ goimportsRuns = 0)
    /\ (failedAt = "GoImports") => (pc = "Aborted" /\ exitCode # 0)

\* C8 witness: a run with two matching declarations has ended, both tools
\* having run.
C8_Witness ==
    /\ Terminal
    /\ matches >= 2
    /\ gofmtRuns = 1
    /\ goimportsRuns = 1

\* C9: the output file name is the source file name without its ".go" suffix,
\* then "_", then the lower-cased type name with its first "options" replaced
\* by "_options", then ".go".
C9_NameKeepsStem ==
    opened =>
        outName = TrimSuffix(srcFile, DotGo) \o <<"_">>
                  \o Replace(ToLower(inputStructName), OptionsStr, <<"_">> \o OptionsStr, 1)
                  \o DotGo

\* C10: once the first matching declaration has been rendered and formatted, a
\* later matching struct declaration is ignored: it adds no fields to the
\* rendered list, starts no second tool run, makes no step of the run fail,
\* and the run ends with exit status 0.
C10_LaterMatchesIgnored ==
    (matches >= 2 /\ goimportsRuns = 1 /\ failedAt \notin {"GoImports", "TypeAssert"}) =>
        /\ Render(fieldStructs) = outContent
        /\ failedAt = "none"
        /\ gofmtRuns = 1
        /\ Terminal => exitCode = 0

====
